---- MODULE Spec2Model ----
(***************************************************************************)
(* Model of user_shared_gems (gem sharing/python/utils.py): the paginated  *)
(* listing of a user's Gem files through the drive API, the partition of   *)
(* every file's permission entries into editors and viewers, and the       *)
(* normalisation of the three timestamp columns of the resulting table.    *)
(*                                                                         *)
(* Python values are modelled as follows: a dict is a record (a function   *)
(* on the keys that are present), a list is a sequence, a str is a string; *)
(* None and NaN are the two strings below, which no upstream value of the  *)
(* model equals.                                                           *)
(***************************************************************************)
EXTENDS Integers, Sequences, FiniteSets, TLC

VARIABLES owner, pc, calls, responses, page_token, all_files, data_rows,
          lists, i, df, col, error

vars == <<owner, pc, calls, responses, page_token, all_files, data_rows,
          lists, i, df, col, error>>

None == "<None>"
NaN == "<NaN>"
EmptyDict == <<>>

\* The number of list requests after which the upstream has no further page.
MaxPages == 3

(***************************************************************************)
(* Python helpers                                                          *)
(***************************************************************************)
\* dict.get(k, default)
Get(d, k, default) == IF k \in DOMAIN d THEN d[k] ELSE default

\* truthiness of an optional str: None and '' are falsy
Truthy(s) == s # None /\ s # ""

RECURSIVE Join(_, _)
\* sep.join(list)
Join(sep, list) ==
  IF list = <<>> THEN ""
  ELSE IF Len(list) = 1 THEN list[1]
  ELSE list[1] \o sep \o Join(sep, Tail(list))

(***************************************************************************)
(* Lines 6-15: constants of the routine, the query and the field selection *)
(***************************************************************************)
GEM_MIME_TYPE == "application/vnd.google-gemini.gem"

PageSize == 100

\* Query with the owner clause left out.
QueryAnyOwner(o) ==
  "mimeType = '" \o GEM_MIME_TYPE \o "' and trashed = false"

Query(o) ==
  "mimeType = '" \o GEM_MIME_TYPE \o "' and '" \o o \o "' in owners and trashed = false"

Fields ==
  "nextPageToken, files(id, name, owners, createdTime, modifiedTime, webViewLink, viewedByMeTime, permissions)"

\* ListRequest that asks for the first page again.
ListRequestFirstPage(o, token) ==
  [api |-> "files.list", q |-> Query(o), pageSize |-> PageSize,
   supportsAllDrives |-> TRUE, includeItemsFromAllDrives |-> TRUE,
   fields |-> Fields, pageToken |-> None]

\* The request built at lines 20-27.
ListRequest(o, token) ==
  [api |-> "files.list", q |-> Query(o), pageSize |-> PageSize,
   supportsAllDrives |-> TRUE, includeItemsFromAllDrives |-> TRUE,
   fields |-> Fields, pageToken |-> token]

IsList(c) == c.api = "files.list"

\* The list requests issued so far, in order.
Requests == SelectSeq(calls, IsList)

(***************************************************************************)
(* Lines 28-31: accumulation of a page and the loop's exit test            *)
(***************************************************************************)
\* Extend that keeps the last page only.
ExtendReplaces(all, results) == Get(results, "files", <<>>)

Extend(all, results) == all \o Get(results, "files", <<>>)

NextToken(results) == Get(results, "nextPageToken", None)

LoopEnds(token) == ~Truthy(token)

(***************************************************************************)
(* Lines 34-48: owner, identity and the editor/viewer partition            *)
(***************************************************************************)
Owners(file) == Get(file, "owners", <<EmptyDict>>)

\* owners[0] raises IndexError on an empty list
OwnerFails(file) == Len(Owners(file)) = 0

OwnerEmail(file) == Get(Owners(file)[1], "emailAddress", "Unknown")

\* Identity that prefers the display name to the email address.
IdentityNameFirst(perm) ==
  IF Truthy(Get(perm, "displayName", None)) THEN perm["displayName"]
  ELSE IF Truthy(Get(perm, "emailAddress", None)) THEN perm["emailAddress"]
  ELSE IF Truthy(Get(perm, "domain", None)) THEN perm["domain"]
  ELSE "Unknown"

Identity(perm) ==
  IF Truthy(Get(perm, "emailAddress", None)) THEN perm["emailAddress"]
  ELSE IF Truthy(Get(perm, "displayName", None)) THEN perm["displayName"]
  ELSE IF Truthy(Get(perm, "domain", None)) THEN perm["domain"]
  ELSE "Unknown"

Skipped(identity, owner_email) == identity = owner_email

\* Classify that counts commenters as editors.
ClassifyCommenterEdits(role) ==
  IF role \in {"writer", "commenter"} THEN "editors"
  ELSE IF role = "reader" THEN "viewers"
  ELSE "none"

\* The list a role is appended to: lines 45-48.
Classify(role) ==
  IF role = "writer" THEN "editors"
  ELSE IF role \in {"reader", "commenter"} THEN "viewers"
  ELSE "none"

RECURSIVE PermLoop(_, _, _)
PermLoop(perms, owner_email, acc) ==
  IF perms = <<>> THEN acc
  ELSE LET perm == Head(perms)
           identity == Identity(perm)
           target == Classify(Get(perm, "role", None))
           next == IF Skipped(identity, owner_email) THEN acc
                   ELSE IF target = "editors"
                     THEN [acc EXCEPT !.editors = Append(@, identity)]
                   ELSE IF target = "viewers"
                     THEN [acc EXCEPT !.viewers = Append(@, identity)]
                   ELSE acc
       IN PermLoop(Tail(perms), owner_email, next)

\* editors and viewers of a file: lines 35-48
Partition(file) ==
  IF "permissions" \in DOMAIN file
    THEN PermLoop(file["permissions"], OwnerEmail(file),
                  [editors |-> <<>>, viewers |-> <<>>])
    ELSE [editors |-> <<>>, viewers |-> <<>>]

\* The row of lines 49-58.
Row(file) ==
  LET p == Partition(file) IN
    ("File Name" :> Get(file, "name", None)) @@
    ("URL" :> Get(file, "webViewLink", None)) @@
    ("Owner" :> OwnerEmail(file)) @@
    ("Editor(s)" :> Join(", ", p.editors)) @@
    ("Viewer(s)" :> Join(", ", p.viewers)) @@
    ("Created" :> Get(file, "createdTime", None)) @@
    ("Modified" :> Get(file, "modifiedTime", None)) @@
    ("Opened by Me" :> Get(file, "viewedByMeTime", "Never"))

(***************************************************************************)
(* Lines 60-65: pd.to_datetime(errors='coerce'), .dt.strftime('%m/%d/%Y')  *)
(* and fillna("").  A value parses when it starts with an ISO-8601         *)
(* calendar date YYYY-MM-DD that exists, alone or followed by 'T' and a    *)
(* time; everything else, None included, is coerced to NaT.                *)
(***************************************************************************)
Digits == <<"0", "1", "2", "3", "4", "5", "6", "7", "8", "9">>

Char(s, k) == SubSeq(s, k, k)

IsDigit(c) == \E n \in 1..Len(Digits) : Digits[n] = c

DigitVal(c) == (CHOOSE n \in 1..Len(Digits) : Digits[n] = c) - 1

AllDigits(s) == \A k \in 1..Len(s) : IsDigit(Char(s, k))

RECURSIVE Num(_)
Num(s) ==
  IF s = "" THEN 0
  ELSE Num(SubSeq(s, 1, Len(s) - 1)) * 10 + DigitVal(Char(s, Len(s)))

RECURSIVE Str(_)
Str(n) == IF n < 10 THEN Digits[n + 1] ELSE Str(n \div 10) \o Digits[(n % 10) + 1]

RECURSIVE ZeroPad(_, _)
\* the zero padding of %m, %d and %Y
ZeroPad(s, width) == IF Len(s) >= width THEN s ELSE ZeroPad("0" \o s, width)

IsLeap(y) == (y % 4 = 0 /\ y % 100 # 0) \/ y % 400 = 0

DaysIn(y, m) ==
  IF m = 2 THEN (IF IsLeap(y) THEN 29 ELSE 28)
  ELSE IF m \in {4, 6, 9, 11} THEN 30 ELSE 31

\* the missing datetime; no calendar date has month 0
NaT == [year |-> 0, month |-> 0, day |-> 0]

HasDateShape(v) ==
  /\ Len(v) >= 10
  /\ AllDigits(SubSeq(v, 1, 4)) /\ Char(v, 5) = "-"
  /\ AllDigits(SubSeq(v, 6, 7)) /\ Char(v, 8) = "-"
  /\ AllDigits(SubSeq(v, 9, 10))
  /\ (Len(v) = 10 \/ Char(v, 11) = "T")

ToDatetime(v) ==
  IF v = None \/ ~HasDateShape(v) THEN NaT
  ELSE LET y == Num(SubSeq(v, 1, 4))
           m == Num(SubSeq(v, 6, 7))
           d == Num(SubSeq(v, 9, 10))
       IN IF m \in 1..12 /\ d \in 1..DaysIn(y, m)
            THEN [year |-> y, month |-> m, day |-> d]
            ELSE NaT

\* Strftime with the format '%d/%m/%Y'.
StrftimeDayFirst(dt) ==
  IF dt = NaT THEN NaN
  ELSE ZeroPad(Str(dt.day), 2) \o "/" \o ZeroPad(Str(dt.month), 2)
         \o "/" \o ZeroPad(Str(dt.year), 4)

Strftime(dt) ==
  IF dt = NaT THEN NaN
  ELSE ZeroPad(Str(dt.month), 2) \o "/" \o ZeroPad(Str(dt.day), 2)
         \o "/" \o ZeroPad(Str(dt.year), 4)

Fillna(v, fill) == IF v = NaN THEN fill ELSE v

time_cols == <<"Created", "Modified", "Opened by Me">>

\* lines 64-65 applied to one cell
NormalizeCell(v) == Fillna(Strftime(ToDatetime(v)), "")

\* lines 64-65 applied to column c of the frame
NormalizeColumn(frame, c) ==
  [n \in 1..Len(frame) |-> [frame[n] EXCEPT ![c] = NormalizeCell(@)]]

(***************************************************************************)
(* The upstream: the owners the routine is called for, the file records    *)
(* the list endpoint may deliver, the pages it may cut them into and the   *)
(* page tokens it may hand out.                                            *)
(***************************************************************************)
OwnerInputs == {"alice@corp.example", "bob@corp.example"}

FileA ==
  [id |-> "a", name |-> "Gem A", webViewLink |-> "https://gemini.example/gem/a",
   owners |-> <<[emailAddress |-> "alice@corp.example", displayName |-> "Alice"]>>,
   createdTime |-> "2024-01-15T10:30:00.000Z",
   modifiedTime |-> "2024-02-29T08:00:00.000Z",
   viewedByMeTime |-> "2023-12-31T23:59:59.000Z",
   permissions |-> <<
     [id |-> "p1", type |-> "user", emailAddress |-> "alice@corp.example", role |-> "owner"],
     [id |-> "p2", type |-> "user", emailAddress |-> "bob@corp.example",
      displayName |-> "Bob", role |-> "writer"],
     [id |-> "p3", type |-> "user", emailAddress |-> "carol@corp.example", role |-> "reader"],
     [id |-> "p4", type |-> "group", displayName |-> "Team Dave", role |-> "commenter"],
     [id |-> "anyoneWithLink", type |-> "anyone", role |-> "reader"]>>]

\* no owners field, shared with anyone and with a domain, never opened
FileB ==
  [id |-> "b", name |-> "Gem B", webViewLink |-> "https://gemini.example/gem/b",
   createdTime |-> "2022-07-04T00:00:00.000Z",
   modifiedTime |-> "not-a-date",
   permissions |-> <<
     [id |-> "anyoneWithLink", type |-> "anyone", role |-> "reader"],
     [id |-> "p5", type |-> "domain", domain |-> "corp.example", role |-> "writer"]>>]

\* an empty owners list
FileC ==
  [id |-> "c", name |-> "Gem C", webViewLink |-> "https://gemini.example/gem/c",
   owners |-> <<>>,
   createdTime |-> "2024-01-15T10:30:00.000Z",
   modifiedTime |-> "2024-01-15T10:30:00.000Z",
   permissions |-> <<
     [id |-> "p6", type |-> "user", emailAddress |-> "bob@corp.example", role |-> "writer"]>>]

\* first owner without emailAddress, no permissions, no name, no timestamps
FileD ==
  [id |-> "d", webViewLink |-> "https://gemini.example/gem/d",
   owners |-> <<[displayName |-> "Alice"]>>]

\* repeated identities, the owner as writer, empty and missing fields
FileE ==
  [id |-> "e", name |-> "Gem E", webViewLink |-> "https://gemini.example/gem/e",
   owners |-> <<[emailAddress |-> "bob@corp.example"]>>,
   createdTime |-> "2023-02-29T10:30:00.000Z",
   modifiedTime |-> "2024-13-01T10:30:00.000Z",
   viewedByMeTime |-> "2024-11-05T17:00:00.000Z",
   permissions |-> <<
     [id |-> "p7", type |-> "user", emailAddress |-> "carol@corp.example", role |-> "writer"],
     [id |-> "p8", type |-> "user", emailAddress |-> "bob@corp.example", role |-> "writer"],
     [id |-> "p9", type |-> "user", emailAddress |-> "carol@corp.example", role |-> "writer"],
     [id |-> "p10", type |-> "user", emailAddress |-> "", displayName |-> "Eve", role |-> "reader"],
     [id |-> "p11", type |-> "user", emailAddress |-> "", displayName |-> "", domain |-> "corp.example", role |-> "commenter"],
     [id |-> "p12", type |-> "user", emailAddress |-> "zed@corp.example", role |-> "organizer"],
     [id |-> "p13", type |-> "user", emailAddress |-> "yan@corp.example"],
     [id |-> "p14", type |-> "user", emailAddress |-> "carol@corp.example", role |-> "commenter"]>>]

PageContents ==
  {<<>>, <<FileC>>, <<FileB, FileB>>, <<FileD, FileE>>, <<FileA, FileE>>}

PageTokens == {"tok-1", "tok-2"}

\* The bodies of a successful list response: 'files' and 'nextPageToken'
\* may each be absent, and the token may be the empty string.
ListResults ==
  {[files |-> f, nextPageToken |-> t] : f \in PageContents, t \in PageTokens \cup {""}}
    \cup {[files |-> f] : f \in PageContents}
    \cup {[nextPageToken |-> t] : t \in PageTokens}
    \cup {EmptyDict}

(***************************************************************************)
(* The routine                                                             *)
(***************************************************************************)
Init ==
  /\ owner \in OwnerInputs
  /\ pc = "auth"
  /\ calls = <<>>
  /\ responses = <<>>
  /\ page_token = None
  /\ all_files = <<>>
  /\ data_rows = <<>>
  /\ lists = <<>>
  /\ i = 1
  /\ df = <<>>
  /\ col = 1
  /\ error = None

\* lines 9-17: the credentials for the owner, the service, the empty state
Authenticate ==
  /\ pc = "auth"
  /\ calls' = Append(calls, [api |-> "credentials", subject |-> owner])
  /\ all_files' = <<>>
  /\ page_token' = None
  /\ pc' = "loop"
  /\ UNCHANGED <<owner, responses, data_rows, lists, i, df, col, error>>

\* lines 9-13 raise: the key file is missing or malformed
AuthenticateFails ==
  /\ pc = "auth"
  /\ pc' = "failed"
  /\ error' = "CredentialsError"
  /\ UNCHANGED <<owner, calls, responses, page_token, all_files, data_rows,
                 lists, i, df, col>>

\* lines 20-27: the list request for the current page token is sent
SendList ==
  /\ pc = "loop"
  /\ calls' = Append(calls, ListRequest(owner, page_token))
  /\ pc' = "waiting"
  /\ UNCHANGED <<owner, responses, page_token, all_files, data_rows, lists,
                 i, df, col, error>>

\* lines 27-31: execute() returns; the page is accumulated, the loop tested
ListReturns ==
  /\ pc = "waiting"
  /\ \E results \in ListResults :
       /\ Len(responses) + 1 >= MaxPages => LoopEnds(NextToken(results))
       /\ responses' = Append(responses, results)
       /\ all_files' = Extend(all_files, results)
       /\ page_token' = NextToken(results)
       /\ pc' = IF LoopEnds(NextToken(results)) THEN "rows" ELSE "loop"
  /\ i' = 1
  /\ UNCHANGED <<owner, calls, data_rows, lists, df, col, error>>

\* ListFails that leaves the loop and reports the pages fetched so far.
ListFailsKeepsPages ==
  /\ pc = "waiting"
  /\ pc' = "rows"
  /\ error' = "HttpError"
  /\ UNCHANGED <<owner, calls, responses, page_token, all_files, data_rows,
                 lists, i, df, col>>

\* line 27: execute() raises; nothing in the routine catches it
ListFails ==
  /\ pc = "waiting"
  /\ pc' = "failed"
  /\ error' = "HttpError"
  /\ UNCHANGED <<owner, calls, responses, page_token, all_files, data_rows,
                 lists, i, df, col>>

\* lines 33-59: one iteration of the loop over all_files
BuildRow ==
  /\ pc = "rows"
  /\ i <= Len(all_files)
  /\ ~OwnerFails(all_files[i])
  /\ data_rows' = Append(data_rows, Row(all_files[i]))
  /\ lists' = Append(lists, Partition(all_files[i]))
  /\ i' = i + 1
  /\ UNCHANGED <<owner, pc, calls, responses, page_token, all_files, df, col,
                 error>>

\* line 34: owners[0] on an empty list raises IndexError
BuildRowFails ==
  /\ pc = "rows"
  /\ i <= Len(all_files)
  /\ OwnerFails(all_files[i])
  /\ pc' = "failed"
  /\ error' = "IndexError"
  /\ UNCHANGED <<owner, calls, responses, page_token, all_files, data_rows,
                 lists, i, df, col>>

\* lines 60-62: the frame is built; an empty frame is returned as it is
MakeFrame ==
  /\ pc = "rows"
  /\ i > Len(all_files)
  /\ df' = data_rows
  /\ col' = 1
  /\ pc' = IF Len(data_rows) = 0 THEN "returned" ELSE "normalize"
  /\ UNCHANGED <<owner, calls, responses, page_token, all_files, data_rows,
                 lists, i, error>>

\* lines 63-65: one iteration of the loop over time_cols
NormalizeCol ==
  /\ pc = "normalize"
  /\ col <= Len(time_cols)
  /\ df' = NormalizeColumn(df, time_cols[col])
  /\ col' = col + 1
  /\ UNCHANGED <<owner, pc, calls, responses, page_token, all_files,
                 data_rows, lists, i, error>>

\* line 66
Return ==
  /\ pc = "normalize"
  /\ col > Len(time_cols)
  /\ pc' = "returned"
  /\ UNCHANGED <<owner, calls, responses, page_token, all_files, data_rows,
                 lists, i, df, col, error>>

Next ==
  \/ Authenticate
  \/ AuthenticateFails
  \/ SendList
  \/ ListReturns
  \/ ListFails
  \/ BuildRow
  \/ BuildRowFails
  \/ MakeFrame
  \/ NormalizeCol
  \/ Return

Spec == Init /\ [][Next]_vars

(***************************************************************************)
(* Properties                                                              *)
(***************************************************************************)
RECURSIVE FilesOf(_)
\* the file records of a sequence of list responses, in the order delivered
FilesOf(rs) ==
  IF rs = <<>> THEN <<>>
  ELSE (IF "files" \in DOMAIN Head(rs) THEN Head(rs)["files"] ELSE <<>>)
         \o FilesOf(Tail(rs))

Delivered == FilesOf(responses)

TokenOf(r) == IF "nextPageToken" \in DOMAIN r THEN r["nextPageToken"] ELSE None

HasToken(r) == TokenOf(r) # None /\ TokenOf(r) # ""

Field(d, k) == IF k \in DOMAIN d THEN d[k] ELSE None

Elements(list) == {list[n] : n \in 1..Len(list)}

\* C1: a returned table has exactly one row per file record delivered by the
\* list responses, in the order of the pages and of the records within each
\* page (rows are recognised by their File Name and URL); a table returned
\* for responses without file records is empty.
C1_Enumerates ==
  pc = "returned" =>
    /\ Len(df) = Len(Delivered)
    /\ \A n \in 1..Len(df) :
         /\ df[n]["File Name"] = Field(Delivered[n], "name")
         /\ df[n]["URL"] = Field(Delivered[n], "webViewLink")

C1_Witness ==
  /\ pc = "returned"
  /\ Len(responses) = 3
  /\ Len(df) >= 4
  /\ df[1]["URL"] # df[2]["URL"]
  /\ df[1]["URL"] = df[3]["URL"]

\* C2: once a list request has failed the routine has ended with that
\* failure: the failed request is the last one issued, every earlier request
\* was answered, and no row and no table was built from the pages fetched.
C2_FailurePropagates ==
  error = "HttpError" =>
    /\ pc = "failed"
    /\ Len(Requests) = Len(responses) + 1
    /\ data_rows = <<>>
    /\ df = <<>>

C2_Witness ==
  /\ error = "HttpError"
  /\ Len(responses) = 2
  /\ Len(all_files) >= 2

\* C3: the first list request carries no page token, every later request is
\* issued after the previous response and carries that response's
\* nextPageToken, no request follows a response without a (non-empty) token,
\* and at most one request is outstanding.
C3_Sequential ==
  /\ Len(Requests) <= Len(responses) + 1
  /\ Len(Requests) >= Len(responses)
  /\ Len(Requests) >= 1 => Requests[1].pageToken = None
  /\ \A k \in 2..Len(Requests) :
       /\ HasToken(responses[k - 1])
       /\ Requests[k].pageToken = responses[k - 1]["nextPageToken"]
  /\ \A k \in 1..Len(responses) : ~HasToken(responses[k]) => Len(Requests) = k

C3_Witness ==
  /\ Len(Requests) = 3
  /\ Requests[2].pageToken # Requests[3].pageToken
  /\ pc = "waiting"

\* the upstream timestamps of the model that pandas parses
ParseableTimes ==
  {"2024-01-15T10:30:00.000Z", "2024-02-29T08:00:00.000Z",
   "2023-12-31T23:59:59.000Z", "2022-07-04T00:00:00.000Z",
   "2024-11-05T17:00:00.000Z"}

TimeKey(c) ==
  IF c = "Created" THEN "createdTime"
  ELSE IF c = "Modified" THEN "modifiedTime"
  ELSE "viewedByMeTime"

\* MM/DD/YYYY read off the text of an RFC 3339 timestamp
DateText(t) == SubSeq(t, 6, 7) \o "/" \o SubSeq(t, 9, 10) \o "/" \o SubSeq(t, 1, 4)

\* C4: in every row of a non-empty returned table each of Created, Modified
\* and Opened by Me holds the date of the file's upstream timestamp as
\* MM/DD/YYYY, or the empty string when the timestamp is missing or does not
\* parse; no cell is null and none holds 'Never'.
C4_NormalizedTimes ==
  (pc = "returned" /\ Len(df) > 0) =>
    \A n \in 1..Len(df) : \A c \in {"Created", "Modified", "Opened by Me"} :
      LET t == Field(Delivered[n], TimeKey(c)) IN
        /\ df[n][c] = IF t \in ParseableTimes THEN DateText(t) ELSE ""
        /\ df[n][c] \notin {None, NaN, "Never"}

C4_Witness ==
  /\ pc = "returned"
  /\ \E n \in 1..Len(df) :
       /\ "viewedByMeTime" \notin DOMAIN Delivered[n]
       /\ df[n]["Opened by Me"] = ""
       /\ df[n]["Modified"] = ""
       /\ df[n]["Created"] = "07/04/2022"

\* C5: the first external call is the credential exchange, every later call
\* is a list request, and all list requests carry the query for the given
\* owner, the field selection with permissions and the page size 100; they
\* differ in the page token only.
C5_SoleInterface ==
  /\ pc # "auth" /\ error # "CredentialsError" => Len(calls) >= 1
  /\ Len(calls) >= 1 => calls[1] = [api |-> "credentials", subject |-> owner]
  /\ \A k \in 2..Len(calls) :
       /\ calls[k].api = "files.list"
       /\ calls[k].q = "mimeType = 'application/vnd.google-gemini.gem' and '"
                         \o owner \o "' in owners and trashed = false"
       /\ calls[k].fields = "nextPageToken, files(id, name, owners, createdTime, modifiedTime, webViewLink, viewedByMeTime, permissions)"
       /\ calls[k].pageSize = 100
       /\ [calls[k] EXCEPT !.pageToken = None] = [calls[2] EXCEPT !.pageToken = None]

C5_Witness ==
  /\ Len(calls) = 4
  /\ calls[3].pageToken # calls[4].pageToken
  /\ owner = "bob@corp.example"

\* the identities of the entries of perms that are not the owner's and
\* whose role is one of roles, in upstream order
Selected(perms, owner_email, roles) ==
  LET keep(p) == Identity(p) # owner_email /\ Field(p, "role") \in roles
      kept == SelectSeq(perms, keep)
  IN [k \in 1..Len(kept) |-> Identity(kept[k])]

\* C6: for every file a row was built for, Editor(s) lists, in upstream
\* order and with repetitions, the identities other than the owner email of
\* the entries with role writer, and Viewer(s) those of the entries with
\* role reader or commenter; a file without permissions has two empty lists.
C6_RolePartition ==
  \A n \in 1..Len(lists) :
    LET file == all_files[n]
        perms == IF "permissions" \in DOMAIN file THEN file["permissions"] ELSE <<>>
        oe == data_rows[n]["Owner"]
    IN /\ lists[n].editors = Selected(perms, oe, {"writer"})
       /\ lists[n].viewers = Selected(perms, oe, {"reader", "commenter"})
       /\ data_rows[n]["Editor(s)"] = Join(", ", lists[n].editors)
       /\ data_rows[n]["Viewer(s)"] = Join(", ", lists[n].viewers)

C6_Witness ==
  \E n \in 1..Len(lists) :
    /\ lists[n].editors = <<"carol@corp.example", "carol@corp.example">>
    /\ lists[n].viewers = <<"Eve", "corp.example", "carol@corp.example">>
    /\ data_rows[n]["Editor(s)"] = "carol@corp.example, carol@corp.example"

NonEmpty(d, k) == k \in DOMAIN d /\ d[k] # None /\ d[k] # ""

\* C7: the identity listed for a permission entry is its emailAddress if
\* non-empty, else its displayName if non-empty, else its domain if
\* non-empty, else 'Unknown'; a listed identity is never empty or null.
C7_IdentityPriority ==
  \A n \in 1..Len(lists) :
    LET file == all_files[n]
        perms == IF "permissions" \in DOMAIN file THEN file["permissions"] ELSE <<>>
        listed(p) == Field(p, "role") \in {"writer", "reader", "commenter"}
        shown == SelectSeq(perms, listed)
        expected(p) ==
          IF NonEmpty(p, "emailAddress") THEN p["emailAddress"]
          ELSE IF NonEmpty(p, "displayName") THEN p["displayName"]
          ELSE IF NonEmpty(p, "domain") THEN p["domain"]
          ELSE "Unknown"
        all == Elements(lists[n].editors) \cup Elements(lists[n].viewers)
    IN /\ all \subseteq {expected(shown[k]) : k \in 1..Len(shown)}
       /\ \A k \in 1..Len(shown) :
            expected(shown[k]) # data_rows[n]["Owner"] => expected(shown[k]) \in all
       /\ \A e \in all : e # "" /\ e # None

C7_Witness ==
  /\ Len(lists) >= 2
  /\ lists[1].viewers = <<"carol@corp.example", "Team Dave", "Unknown">>
  /\ lists[2].viewers = <<"Eve", "corp.example", "carol@corp.example">>

\* a permission entry of the file's owner: the entry with role owner, or
\* one whose emailAddress is the emailAddress of an owner of the file
BelongsToOwner(perm, file) ==
  \/ Field(perm, "role") = "owner"
  \/ /\ "owners" \in DOMAIN file
     /\ \E k \in 1..Len(file["owners"]) :
          /\ NonEmpty(file["owners"][k], "emailAddress")
          /\ Field(perm, "emailAddress") = file["owners"][k]["emailAddress"]

\* C8: in every row the Owner value is no element of the row's Editor(s) or
\* Viewer(s) list, and only the owner's entries are skipped: the identity of
\* every entry of another principal with role writer appears in Editor(s),
\* and with role reader or commenter in Viewer(s).
C8_OnlyOwnerSkipped ==
  \A n \in 1..Len(lists) :
    LET file == all_files[n]
        perms == IF "permissions" \in DOMAIN file THEN file["permissions"] ELSE <<>>
    IN /\ data_rows[n]["Owner"] \notin
            Elements(lists[n].editors) \cup Elements(lists[n].viewers)
       /\ \A k \in 1..Len(perms) :
            ~BelongsToOwner(perms[k], file) =>
              /\ Field(perms[k], "role") = "writer"
                   => Identity(perms[k]) \in Elements(lists[n].editors)
              /\ Field(perms[k], "role") \in {"reader", "commenter"}
                   => Identity(perms[k]) \in Elements(lists[n].viewers)

\* the first half of C8 alone: the Owner value is in neither list
OwnerNeverListed ==
  \A n \in 1..Len(lists) :
    data_rows[n]["Owner"] \notin
      Elements(lists[n].editors) \cup Elements(lists[n].viewers)

\* C9: a row is built for every file record, whatever the shape of its
\* owners field, and its Owner is the emailAddress of the first owner, or
\* 'Unknown' when that address is not available; the routine never fails
\* on the owners field.
C9_RowsTotal ==
  /\ error # "IndexError"
  /\ pc \in {"normalize", "returned"} => Len(data_rows) = Len(Delivered)
  /\ \A n \in 1..Len(data_rows) :
       LET file == Delivered[n] IN
         data_rows[n]["Owner"] =
           IF /\ "owners" \in DOMAIN file
              /\ Len(file["owners"]) >= 1
              /\ "emailAddress" \in DOMAIN file["owners"][1]
             THEN file["owners"][1]["emailAddress"]
             ELSE "Unknown"

\* C9 without totality: the Owner of every row that was built
OwnerOfBuiltRows ==
  \A n \in 1..Len(data_rows) :
    data_rows[n]["Owner"] =
      IF /\ "owners" \in DOMAIN Delivered[n]
         /\ Len(Delivered[n]["owners"]) >= 1
         /\ "emailAddress" \in DOMAIN Delivered[n]["owners"][1]
        THEN Delivered[n]["owners"][1]["emailAddress"]
        ELSE "Unknown"

\* C10: the loop is left exactly on a response without a (non-empty)
\* nextPageToken, and a run in which every list request succeeded and the
\* last response carried no token ends by returning a table.
C10_ReturnsTable ==
  /\ pc \in {"rows", "normalize", "returned"} =>
       (Len(responses) >= 1 /\ ~HasToken(responses[Len(responses)]))
  /\ pc \in {"loop", "waiting"} =>
       \A k \in 1..Len(responses) : HasToken(responses[k])
  /\ (/\ ~ENABLED Next
      /\ Len(responses) >= 1
      /\ Len(Requests) = Len(responses)
      /\ ~HasToken(responses[Len(responses)])) => pc = "returned"

\* C10 without the return: the loop is left exactly on a response without
\* a (non-empty) token
LoopExitOnEmptyToken ==
  /\ pc \in {"rows", "normalize", "returned"} =>
       (Len(responses) >= 1 /\ ~HasToken(responses[Len(responses)]))
  /\ pc \in {"loop", "waiting"} =>
       \A k \in 1..Len(responses) : HasToken(responses[k])

====
